---- MODULE Spec2Model ----
(***************************************************************************)
(* Verification model of generate_diagrams.py: the field extractor (the    *)
(* two regular expressions of parse_door_config), the hierarchy builder    *)
(* (parse_door_config's loop over door sections), the layout engine        *)
(* (draw_panel_diagram) and the output loop of main / run_generation.      *)
(*                                                                         *)
(* Text is modelled as a sequence of lexical atoms: a keyword in one of    *)
(* its casings ("subpanel", "Subpanel", "SUBPANEL", "Address", ...), a     *)
(* blank, a colon, a decimal digit, a letter word, an underscore or a      *)
(* punctuation mark.  A keyword or letter-word atom is a run of letters.   *)
(***************************************************************************)
EXTENDS Integers, Sequences, FiniteSets, TLC

VARIABLES
    pc,                \* position of the program
    raw_value,         \* the Value text handed to the field extractor
    extracted,         \* the hardware_data entry built from raw_value
    df,                \* the table read from the CSV: rows of (Name, Value)
    cfg_indices,       \* row indices of the sentinel rows, then len(df)
    idx,               \* loop variable of parse_door_config
    step,              \* how the last loop iteration ended
    door_name,         \* locals of parse_door_config, as the last iteration left them
    block,
    panel_name,
    hardware_data,
    subpanel_num,
    door_index,
    panels_structure,  \* the nested dict being built, then main's panels
    show_lines,        \* the --show-lines flag
    drawn,             \* how many panels main's loop has handled
    files,             \* output directory: file name -> figure saved there
    subpanels,         \* argument of a direct draw_panel_diagram call
    figure             \* what that call drew

parseVars == <<df, cfg_indices, idx, step, door_name, block, panel_name,
               hardware_data, subpanel_num, door_index, panels_structure>>
mainVars == <<show_lines, drawn, files>>
extractVars == <<raw_value, extracted>>
drawVars == <<subpanels, figure>>
vars == <<pc, parseVars, mainVars, extractVars, drawVars>>

----------------------------------------------------------------------------
(* Bounds of the model *)

\* longest run of blanks, and of leading zeros, in an enumerated value text
MaxRun == 2
\* most sentinel rows in an enumerated table
MaxSections == 2
\* most rows after the Hardware row in the one-section tables
MaxHwRows == 3
\* most doors of the varied subpanel, and most subpanels, in a direct draw call
MaxDoors == 4
MaxSubpanels == 3

----------------------------------------------------------------------------
(* Field extractor: re.search with re.IGNORECASE, lines 119-142 *)

\* Python's None for subpanel / address (every captured number is >= 0)
None == -2

DigitVal ==
    [d \in {"0", "1", "2", "3", "4", "5", "6", "7", "8", "9"} |->
        CASE d = "0" -> 0 [] d = "1" -> 1 [] d = "2" -> 2 [] d = "3" -> 3
          [] d = "4" -> 4 [] d = "5" -> 5 [] d = "6" -> 6 [] d = "7" -> 7
          [] d = "8" -> 8 [] d = "9" -> 9]

IsDigit(a) == a \in DOMAIN DigitVal
IsSpace(a) == a \in {" ", "\t"}
IsLetters(a) ==
    a \in {"subpanel", "Subpanel", "SUBPANEL", "address", "Address", "ADDRESS",
           "Input", "Reader", "on", "x"}
\* \w : letters, digits and the underscore
IsWord(a) == IsLetters(a) \/ IsDigit(a) \/ a = "_"

\* case folding of re.IGNORECASE
Lower(a) ==
    CASE a \in {"subpanel", "Subpanel", "SUBPANEL"} -> "subpanel"
      [] a \in {"address", "Address", "ADDRESS"} -> "address"
      [] a = "Input" -> "input"
      [] a = "Reader" -> "reader"
      [] OTHER -> a

\* one element of a pattern: a class or literal, a quantifier, a capture group
Elem(cls, q, grp) == [cls |-> cls, q |-> q, grp |-> grp]

LitNoCase(lit, a) == a = lit
LitIgnoreCase(lit, a) == Lower(a) = Lower(lit)

InClass(e, a) ==
    CASE e.cls = "\\s" -> IsSpace(a)
      [] e.cls = "\\d" -> IsDigit(a)
      [] e.cls = "\\w" -> IsWord(a)
      [] OTHER -> LitIgnoreCase(e.cls, a)

\* r'subpanel\s+(\d+)\s+Address\s+(\d+)'
PrimaryPattern ==
    << Elem("subpanel", "one", 0), Elem("\\s", "plus", 0), Elem("\\d", "plus", 1),
       Elem("\\s", "plus", 0), Elem("Address", "one", 0), Elem("\\s", "plus", 0),
       Elem("\\d", "plus", 2) >>

\* r'Subpanel:(\d+)\s+\w+:?(\d+)'
FallbackPattern ==
    << Elem("Subpanel", "one", 0), Elem(":", "one", 0), Elem("\\d", "plus", 1),
       Elem("\\s", "plus", 0), Elem("\\w", "plus", 0), Elem(":", "opt", 0),
       Elem("\\d", "plus", 2) >>

NoMatch == [ok |-> FALSE, g1 |-> <<>>, g2 |-> <<>>]

RECURSIVE RunLen(_, _, _)
\* how many atoms from position i on are in the class of e
RunLen(t, i, e) ==
    IF i <= Len(t) /\ InClass(e, t[i]) THEN 1 + RunLen(t, i + 1, e) ELSE 0

WithGroup(grp, s, r) ==
    CASE grp = 1 -> [r EXCEPT !.g1 = s]
      [] grp = 2 -> [r EXCEPT !.g2 = s]
      [] OTHER -> r

RECURSIVE MatchFrom(_, _, _, _), TryPlus(_, _, _, _, _)
\* the backtracking matcher: element k of pat against t from position i
MatchFrom(pat, k, t, i) ==
    IF k > Len(pat) THEN [ok |-> TRUE, g1 |-> <<>>, g2 |-> <<>>]
    ELSE LET e == pat[k]
             one == IF i <= Len(t) /\ InClass(e, t[i])
                    THEN MatchFrom(pat, k + 1, t, i + 1) ELSE NoMatch
         IN  CASE e.q = "one" -> one
               [] e.q = "opt" -> IF one.ok THEN one ELSE MatchFrom(pat, k + 1, t, i)
               [] OTHER -> TryPlus(pat, k, t, i, RunLen(t, i, e))

\* a greedy "+" : the longest run first, then shorter ones
TryPlus(pat, k, t, i, n) ==
    IF n = 0 THEN NoMatch
    ELSE LET r == MatchFrom(pat, k + 1, t, i + n)
         IN  IF r.ok THEN WithGroup(pat[k].grp, SubSeq(t, i, i + n - 1), r)
             ELSE TryPlus(pat, k, t, i, n - 1)

RECURSIVE SearchFrom(_, _, _)
\* re.search: the match at the leftmost start position
SearchFrom(pat, t, i) ==
    IF i > Len(t) THEN NoMatch
    ELSE LET r == MatchFrom(pat, 1, t, i)
         IN  IF r.ok THEN r ELSE SearchFrom(pat, t, i + 1)

Search(pat, t) == SearchFrom(pat, t, 1)

RECURSIVE ToInt(_)
\* int() of a captured run of digits
ToInt(ds) ==
    IF ds = <<>> THEN 0
    ELSE 10 * ToInt(SubSeq(ds, 1, Len(ds) - 1)) + DigitVal[ds[Len(ds)]]

\* m = re.search(primary) ; if not m: m = re.search(fallback)
FirstMatch(t) ==
    LET m == Search(PrimaryPattern, t)
    IN  IF m.ok THEN m ELSE Search(FallbackPattern, t)

\* the hardware_data entry of one recognised row
ExtractHardware(t) ==
    LET m == FirstMatch(t)
    IN  [subpanel |-> IF m.ok THEN ToInt(m.g1) ELSE None,
         address  |-> IF m.ok THEN ToInt(m.g2) ELSE None,
         raw      |-> t]

----------------------------------------------------------------------------
(* Python dicts: insertion-ordered lists of <<key, value>> pairs *)

Keys(d) == {d[i][1] : i \in 1..Len(d)}
Has(d, k) == k \in Keys(d)
Get(d, k) == d[CHOOSE i \in 1..Len(d) : d[i][1] = k][2]

DictSetAppending(d, k, v) == Append(d, <<k, v>>)

\* d[k] = v : an existing key keeps its place, a new key goes last
DictSet(d, k, v) ==
    IF Has(d, k)
    THEN [i \in 1..Len(d) |-> IF d[i][1] = k THEN <<k, v>> ELSE d[i]]
    ELSE Append(d, <<k, v>>)

----------------------------------------------------------------------------
(* Hierarchy builder: parse_door_config, lines 89-161 *)

CfgName == "Configuration and Communication Settings"
HardwareKinds ==
    {"Reader", "Alternate Reader", "Door Position", "Strike", "Rex #1", "Rex #2"}
PriorityKinds == <<"Reader", "Door Position", "Strike", "Rex #1", "Rex #2">>

\* a missing cell of the table (pandas NaN)
NaN == <<"<NaN>">>
NotNa(v) == v # NaN
\* str() of a cell
Str(v) == IF v = NaN THEN <<"nan">> ELSE v

RECURSIVE Strip(_)
\* str.strip(): leading and trailing white space removed
Strip(s) ==
    IF s = <<>> THEN s
    ELSE IF IsSpace(s[1]) THEN Strip(Tail(s))
    ELSE IF IsSpace(s[Len(s)]) THEN Strip(SubSeq(s, 1, Len(s) - 1))
    ELSE s

RECURSIVE IndicesFrom(_, _, _)
\* the 0-based indices i >= from of the rows of t named name, ascending
IndicesFrom(t, name, from) ==
    IF from >= Len(t) THEN <<>>
    ELSE IF t[from + 1].Name = name
         THEN <<from>> \o IndicesFrom(t, name, from + 1)
         ELSE IndicesFrom(t, name, from + 1)

\* df.index[df['Name'] == ...].tolist() ; .append(len(df))
LocateSentinels(t) == Append(IndicesFrom(t, CfgName, 0), Len(t))

HeaderMissingOrRowZero(header_index) == header_index <= 0
\* if header_index < 0: continue
HeaderMissing(header_index) == header_index < 0

\* df.loc[header_index:end_cfg - 1].reset_index(drop=True)
BlockOf(t, header_index, end_cfg) == SubSeq(t, header_index + 1, end_cfg)

PanelRows(b) == SelectSeq(b, LAMBDA r : r.Name = "Panel")
\* str(panel_rows['Value'].iloc[0]).strip()
PanelNameOf(b) == Strip(Str(PanelRows(b)[1].Value))

RawValue(v) == IF NotNa(v) THEN Str(v) ELSE <<>>

FirstRowScannedFromTop(hardware_start_rows) == 0
\* block.loc[hardware_start_rows[0] + 1:]
FirstRowScanned(hardware_start_rows) == hardware_start_rows[1] + 1

RECURSIVE ScanRows(_, _, _)
\* the loop of lines 116-142 from the 0-based row j of the block on
ScanRows(b, j, hd) ==
    IF j >= Len(b) THEN hd
    ELSE LET row == b[j + 1]
         IN  IF row.Name \in HardwareKinds
             THEN ScanRows(b, j + 1,
                           DictSet(hd, row.Name, ExtractHardware(RawValue(row.Value))))
             ELSE ScanRows(b, j + 1, hd)

\* hardware_data of a block, lines 112-142
ScanHardware(b) ==
    LET hardware_start_rows == IndicesFrom(b, "Hardware", 0)
    IN  IF hardware_start_rows # <<>>
        THEN ScanRows(b, FirstRowScanned(hardware_start_rows), <<>>)
        ELSE <<>>

RECURSIVE ResolveFrom(_, _)
\* the loop of lines 147-151 from the k-th key on
ResolveFrom(hd, k) ==
    IF k > Len(PriorityKinds) THEN <<-1, -1>>
    ELSE LET key == PriorityKinds[k]
         IN  IF Has(hd, key) /\ Get(hd, key).subpanel # None
             THEN <<Get(hd, key).subpanel,
                    IF Get(hd, key).address # None THEN Get(hd, key).address ELSE -1>>
             ELSE ResolveFrom(hd, k + 1)

ResolveDoorFromReaderOnly(hd) ==
    IF Has(hd, "Reader") /\ Get(hd, "Reader").subpanel # None
    THEN <<Get(hd, "Reader").subpanel, Get(hd, "Reader").address>>
    ELSE <<-1, -1>>
\* (subpanel_num, door_index), lines 145-151
ResolveDoor(hd) == ResolveFrom(hd, 1)

InsertUnlessUnresolved(ps, pn, sp, dn, door) ==
    LET panel_dict == IF Has(ps, pn) THEN Get(ps, pn) ELSE <<>>
        subpanel_dict == IF Has(panel_dict, sp) THEN Get(panel_dict, sp) ELSE <<>>
    IN  DictSet(ps, pn, DictSet(panel_dict, sp,
            IF sp = -1 THEN subpanel_dict ELSE DictSet(subpanel_dict, dn, door)))
\* the two setdefault calls and the assignment of lines 154-159
InsertDoor(ps, pn, sp, dn, door) ==
    LET panel_dict == IF Has(ps, pn) THEN Get(ps, pn) ELSE <<>>
        subpanel_dict == IF Has(panel_dict, sp) THEN Get(panel_dict, sp) ELSE <<>>
    IN  DictSet(ps, pn, DictSet(panel_dict, sp, DictSet(subpanel_dict, dn, door)))

\* how the loop body of lines 97-159 ends for section i
Outcome(t, cfg, i) ==
    LET header_index == cfg[i + 1] - 1
    IN  IF HeaderMissing(header_index) THEN "no_name"
        ELSE IF header_index < 0 THEN "KeyError"      \* df.loc[-1, 'Name']
        ELSE IF PanelRows(BlockOf(t, header_index, cfg[i + 2])) = <<>> THEN "no_panel"
        ELSE "inserted"

----------------------------------------------------------------------------
(* Exact fractions <<numerator, denominator>> for the figure's coordinates *)

RECURSIVE GCD(_, _)
GCD(a, b) == IF b = 0 THEN a ELSE GCD(b, a % b)
Abs(a) == IF a < 0 THEN -a ELSE a
Frac(n, d) == LET g == GCD(Abs(n), d) IN <<n \div g, d \div g>>
Whole(k) == <<k, 1>>
RAdd(a, b) == Frac(a[1] * b[2] + b[1] * a[2], a[2] * b[2])
RSub(a, b) == Frac(a[1] * b[2] - b[1] * a[2], a[2] * b[2])
RMul(a, b) == Frac(a[1] * b[1], a[2] * b[2])
\* a / b for b > 0
RDiv(a, b) == Frac(a[1] * b[2], a[2] * b[1])
RLe(a, b) == a[1] * b[2] <= b[1] * a[2]
RLt(a, b) == a[1] * b[2] < b[1] * a[2]
RMax(a, b) == IF RLe(a, b) THEN b ELSE a
Half(a) == RDiv(a, Whole(2))

----------------------------------------------------------------------------
(* Layout engine: draw_panel_diagram, lines 186-328 *)

\* boxstyle="round,pad=0.02" of every FancyBboxPatch: the box is drawn around
\* the rectangle (xy, width, height), pad further out on every side
BoxPad == Frac(2, 100)

\* the key of an unresolved door in the sort of line 274
UnresolvedSortKey == 99

\* kv[1]['door_index'] if kv[1]['door_index'] >= 0 else 99
SortKey(index) == IF index >= 0 THEN index ELSE UnresolvedSortKey

\* the pair e put behind the pairs of the sorted s whose key is not greater
InsertStable(s, e) ==
    LET pos == Cardinality({i \in 1..Len(s) : s[i][1] <= e[1]})
    IN  SubSeq(s, 1, pos) \o <<e>> \o SubSeq(s, pos + 1, Len(s))

RECURSIVE SortedPairs(_)
\* <<key, item>> pairs in ascending order of key, equal keys in their old order
SortedPairs(keyed) ==
    IF keyed = <<>> THEN <<>>
    ELSE InsertStable(SortedPairs(SubSeq(keyed, 1, Len(keyed) - 1)), keyed[Len(keyed)])

\* sorted(doors.items(), key=...), lines 272-275
SortedDoors(doors) ==
    LET keyed == [k \in 1..Len(doors) |-> <<SortKey(doors[k][2].door_index), doors[k]>>]
    IN  [k \in 1..Len(doors) |-> SortedPairs(keyed)[k][2]]

\* sorted(subpanels.keys()), line 221
SortedKeys(subs) ==
    LET keyed == [k \in 1..Len(subs) |-> <<subs[k][1], subs[k][1]>>]
    IN  [k \in 1..Len(subs) |-> SortedPairs(keyed)[k][2]]

\* str.replace on a key that is old itself or does not hold old
Replace(s, old, new) == IF s = old THEN new ELSE s

ShortLabel(key) ==
    Replace(Replace(Replace(Replace(Replace(key,
        "Door Position", "DPOS"), "Strike", "LOCK Output"), "Rex #1", "REX1 Input"),
        "Rex #2", "REX2 Input"), "Reader", "RDR Output")

ShowsAddressOrZero(addr) == addr # None /\ addr >= 0
\* addr is not None and addr > 0
ShowsAddress(addr) == addr # None /\ addr > 0

RECURSIVE HardwareLines(_, _)
\* the loop of lines 300-312 from the k-th key on
HardwareLines(hardware, k) ==
    IF k > Len(PriorityKinds) THEN <<>>
    ELSE LET key == PriorityKinds[k]
             rest == HardwareLines(hardware, k + 1)
         IN  IF Has(hardware, key) /\ ShowsAddress(Get(hardware, key).address)
             THEN << <<ShortLabel(key), ":", Get(hardware, key).address>> >> \o rest
             ELSE rest

\* the lines of a door's label, lines 297-313
DoorLabel(name, door_data) ==
    << <<name>> >>
    \o (IF door_data.door_index > 0 THEN << <<"Addr: ", door_data.door_index>> >>
        ELSE <<>>)
    \o HardwareLines(door_data.hardware, 1)

Patch(kind, col, row, x, y, w, h) ==
    [kind |-> kind, col |-> col, row |-> row, x |-> x, y |-> y, w |-> w, h |-> h,
     pad |-> BoxPad]
Text(kind, col, row, x, y, s) ==
    [kind |-> kind, col |-> col, row |-> row, x |-> x, y |-> y, s |-> s]
Segment(x, y0, y1) == [x |-> x, y0 |-> y0, y1 |-> y1]

EmptyFigure == [saved |-> FALSE, figsize |-> <<>>, patches |-> <<>>, texts |-> <<>>,
                lines |-> <<>>]

Join(fig, patches, texts, lines) ==
    [fig EXCEPT !.patches = @ \o patches, !.texts = @ \o texts, !.lines = @ \o lines]

RECURSIVE DrawDoors(_, _, _, _, _, _, _, _)
\* the loop of lines 277-322 from the j-th item of door_items on
DrawDoors(fig, door_items, j, i, sub_x_center, sub_width, y_cursor, lined) ==
    IF j > Len(door_items) THEN fig
    ELSE LET m == Len(door_items)
             door_region_height == RSub(Frac(6, 10), Frac(1, 10))
             door_height == RMul(RDiv(door_region_height, Whole(m)), Frac(8, 10))
             door_spacing == RMul(RDiv(door_region_height, Whole(m)), Frac(2, 10))
             sub_y == Frac(75, 100)
             sub_height == Frac(1, 10)
             d_width == RMul(sub_width, Frac(9, 10))
             rect_d == Patch("door", i, j - 1,
                             RSub(sub_x_center, Half(d_width)),
                             RSub(y_cursor, Half(door_height)), d_width, door_height)
             label == Text("door", i, j - 1, sub_x_center, y_cursor,
                           DoorLabel(door_items[j][1], door_items[j][2]))
             line == Segment(sub_x_center, RSub(sub_y, Half(sub_height)),
                             RAdd(y_cursor, Half(door_height)))
         IN  DrawDoors(Join(fig, <<rect_d>>, <<label>>,
                            IF lined THEN <<line>> ELSE <<>>),
                       door_items, j + 1, i, sub_x_center, sub_width,
                       RSub(y_cursor, RAdd(door_height, door_spacing)), lined)

RECURSIVE DrawSubpanels(_, _, _, _, _)
\* the loop of lines 222-322 from the i-th (0-based) subpanel number on
DrawSubpanels(fig, subs, subpanel_numbers, i, lined) ==
    IF i >= Len(subpanel_numbers) THEN fig
    ELSE LET n == Len(subs)
             sp == subpanel_numbers[i + 1]
             col_start == RDiv(Whole(i), Whole(n))
             col_end == RDiv(Whole(i + 1), Whole(n))
             sub_x_center == Half(RAdd(col_start, col_end))
             sub_width == RMul(RSub(col_end, col_start), Frac(8, 10))
             sub_height == Frac(1, 10)
             sub_y == Frac(75, 100)
             panel_y == Frac(95, 100)
             panel_height == Frac(8, 100)
             line == Segment(sub_x_center, RSub(panel_y, Half(panel_height)),
                             RAdd(sub_y, Half(sub_height)))
             rect_sp == Patch("subpanel", i, -1,
                              RSub(sub_x_center, Half(sub_width)),
                              RSub(sub_y, Half(sub_height)), sub_width, sub_height)
             sp_label == Text("subpanel", i, -1, sub_x_center, sub_y,
                              << <<"Subpanel ", sp>>,
                                 <<IF sp = 0 THEN "Internal SIO" ELSE "MR52">> >>)
             withSub == Join(fig, <<rect_sp>>, <<sp_label>>,
                             IF lined THEN <<line>> ELSE <<>>)
             doors == Get(subs, sp)
             m == Len(doors)
             door_height == RMul(RDiv(Frac(5, 10), Whole(m)), Frac(8, 10))
             door_items == SortedDoors(doors)
             y_cursor == RSub(Frac(6, 10), Half(door_height))
         IN  DrawSubpanels(
                 IF m = 0 THEN withSub
                 ELSE DrawDoors(withSub, door_items, 1, i, sub_x_center, sub_width,
                                y_cursor, lined),
                 subs, subpanel_numbers, i + 1, lined)

MaxLen(doorsOf) ==
    CHOOSE k \in {Len(doorsOf[i][2]) : i \in 1..Len(doorsOf)} :
        \A i \in 1..Len(doorsOf) : Len(doorsOf[i][2]) <= k

\* draw_panel_diagram: the figure it saves, or no figure for zero subpanels
DrawPanelDiagram(name, subs, lined) ==
    LET n == Len(subs)
        max_doors == MaxLen(subs)
        fig_width == RMax(Whole(12), Whole(3 * n))
        fig_height == RMax(Whole(6), RAdd(Whole(2), RMul(Frac(15, 10), Whole(max_doors))))
        panel_x == Frac(5, 10)
        panel_y == Frac(95, 100)
        panel_width == Frac(4, 10)
        panel_height == Frac(8, 100)
        rect_panel == Patch("panel", -1, -1, RSub(panel_x, Half(panel_width)),
                            RSub(panel_y, Half(panel_height)), panel_width, panel_height)
        title == Text("panel", -1, -1, panel_x, panel_y, << <<"Panel">>, name >>)
        subpanel_numbers == SortedKeys(subs)
    IN  IF n = 0 THEN EmptyFigure
        ELSE DrawSubpanels(
                 [saved |-> TRUE, figsize |-> <<fig_width, fig_height>>,
                  patches |-> <<rect_panel>>, texts |-> <<title>>, lines |-> <<>>],
                 subs, subpanel_numbers, 0, lined)

\* panel_name.replace(' ', '_')
SafeName(name) == [k \in 1..Len(name) |-> IF name[k] = " " THEN "_" ELSE name[k]]
\* os.path.join(out_dir, f"{safe_name}.png"), relative to out_dir
OutputFile(name) == SafeName(name) \o <<".png">>

----------------------------------------------------------------------------
(* Value texts the extractor is applied to *)

Blanks == {[i \in 1..n |-> " "] : n \in 0..MaxRun}
Zeros == {[i \in 1..n |-> "0"] : n \in 0..(MaxRun - 1)}

Pre == { <<>>,
         <<"Subpanel", ":", "2", " ", "Input", ":", "5", " ">>,
         <<"subpanel", " ", "1", " ", "Address", " ", "2", " ">> }
Kw1 == { <<"subpanel">>, <<"SUBPANEL">>, <<"Subpanel">> }
Sep1 == Blanks \cup { <<":">> }
Num1 == { z \o d : z \in Zeros, d \in { <<"3">>, <<"2">> } }
Sep2 == { <<>>, <<" ">> }
Lab == { <<"ADDRESS">>, <<"Input">>, <<"Input", "1">>, <<"1">>, <<>> }
Sep3 == Blanks \cup { <<":">> }
Num2 == { <<"1", "2">>, <<"5">>, <<>> }
Post == { <<>>, <<"3">> }

ValueTexts ==
    { a \o b \o c \o d \o e \o f \o g \o h \o k :
        a \in Pre, b \in Kw1, c \in Sep1, d \in Num1, e \in Sep2, f \in Lab,
        g \in Sep3, h \in Num2, k \in Post }

----------------------------------------------------------------------------
(* Tables read from the CSV *)

NameRow(d) == [Name |-> d, Value |-> NaN]
CfgRow == [Name |-> CfgName, Value |-> NaN]
PanelRow(p) == [Name |-> "Panel", Value |-> p]
HwHeader == [Name |-> "Hardware", Value |-> NaN]
HwRow(kind, text) == [Name |-> kind, Value |-> text]

ReaderText == <<"Reader", " ", "on", " ", "subpanel", " ", "3", " ", "Address", " ", "7">>
InputText == <<"x", " ", "Subpanel", ":", "0", " ", "Input", ":", "5">>
AltText == <<"subpanel", " ", "2", " ", "Address", " ", "9">>
ZeroText == <<"SUBPANEL", " ", "4", " ", "ADDRESS", " ", "0">>

PanelParts ==
    { <<>>, <<PanelRow(<<"A", " ", "B">>)>>, <<PanelRow(<<" ", "A", "_", "B", " ">>)>> }
HwParts == { <<>>, <<HwHeader, HwRow("Reader", ReaderText)>> }
NameParts == { <<NameRow("D1")>>, <<NameRow("D2")>> }

\* what may follow a sentinel row up to the next one: the rows of a door and the
\* name row of the next door, or no more than a Panel row
Bodies ==
    { a \o b \o c : a \in PanelParts, b \in HwParts, c \in NameParts } \cup PanelParts

RECURSIVE TablesOf(_)
\* the tables with k sentinel rows
TablesOf(k) ==
    IF k = 0 THEN { <<>>, <<NameRow("D1")>> }
    ELSE { t \o <<CfgRow>> \o b : t \in TablesOf(k - 1), b \in Bodies }

Tables == UNION { TablesOf(k) : k \in 0..MaxSections }

HwRowSet ==
    { HwRow("Reader", ReaderText), HwRow("Reader", <<"x">>),
      HwRow("Door Position", InputText), HwRow("Alternate Reader", AltText),
      HwRow("Strike", NaN), HwRow("Rex #1", ZeroText), HwRow("Door Mode", AltText) }

RECURSIVE RowSeqs(_)
RowSeqs(k) ==
    IF k = 0 THEN { <<>> }
    ELSE RowSeqs(k - 1) \cup { r \o <<x>> : r \in { q \in RowSeqs(k - 1) : Len(q) = k - 1 },
                                            x \in HwRowSet }

\* a following section without a Panel row, whose door is named "Reader"
NextSection == <<NameRow("Reader"), CfgRow, HwHeader, HwRow("Strike", AltText)>>

\* a sentinel in row 0, or one door with a varied hardware block, which another
\* section may follow
BlockTables ==
    { <<CfgRow>> } \cup
    { <<NameRow("D1"), CfgRow, PanelRow(<<"A", " ", "B">>)>> \o c \o d \o e \o f :
        c \in { <<>>, <<HwRow("Strike", ReaderText)>> },
        d \in { <<>>, <<HwHeader>> },
        e \in RowSeqs(MaxHwRows),
        f \in { <<>>, NextSection } }

----------------------------------------------------------------------------
(* Arguments of a direct call of draw_panel_diagram *)

Hw(subpanel, address) == [subpanel |-> subpanel, address |-> address, raw |-> <<>>]

\* the door_data of a door of the given door_index
DoorData(c) ==
    [door_index |-> c,
     hardware |->
        CASE c = -1 -> << <<"Alternate Reader", Hw(3, 4)>> >>
          [] c = 0 -> << <<"Reader", Hw(3, 0)>>, <<"Door Position", Hw(3, 6)>>,
                         <<"Strike", Hw(None, None)>> >>
          [] c = 2 -> << <<"Rex #2", Hw(3, 8)>>, <<"Rex #1", Hw(3, 0)>>,
                         <<"Alternate Reader", Hw(3, 9)>>, <<"Reader", Hw(3, 2)>> >>
          [] OTHER -> << <<"Reader", Hw(3, c)>>, <<"Strike", Hw(3, 99)>>,
                         <<"Rex #1", Hw(3, 4)>> >>]

IndexValues == {-1, 0, 2, 100}
DoorNames == <<"D1", "D2", "D3", "D4", "D5", "D6">>

\* a subpanel's doors D1, D2, ... with the given door_index values, in this order
DoorsOf(indices) == [k \in 1..Len(indices) |-> <<DoorNames[k], DoorData(indices[k])>>]

IndexSeqs ==
    UNION { [1..m -> IndexValues] : m \in 1..MaxDoors } \cup { <<5, -1, 2, -1, 1>> }

SubpanelIds == <<3, -1, 0, 7>>

\* the first subpanel's doors vary; the k-th further one holds k doors
DrawArguments ==
    { [k \in 1..n |-> <<SubpanelIds[k],
                        IF k = 1 THEN DoorsOf(s) ELSE DoorsOf([j \in 1..k |-> j])>>] :
        n \in 1..MaxSubpanels, s \in IndexSeqs }

----------------------------------------------------------------------------
(* Initial states *)

NoEntry == [subpanel |-> None, address |-> None, raw |-> <<>>]

IdleParse ==
    /\ df = <<>> /\ cfg_indices = <<>> /\ idx = 0 /\ step = "none"
    /\ door_name = "" /\ block = <<>> /\ panel_name = <<>> /\ hardware_data = <<>>
    /\ subpanel_num = None /\ door_index = None /\ panels_structure = <<>>
    /\ drawn = 0 /\ files = <<>>
IdleExtract == raw_value = <<>> /\ extracted = NoEntry
IdleDraw == subpanels = <<>> /\ figure = EmptyFigure

\* main() about to call parse_door_config on a table
InitTable(tables, flags) ==
    /\ pc = "start"
    /\ df \in tables
    /\ show_lines \in flags
    /\ cfg_indices = <<>> /\ idx = 0 /\ step = "none"
    /\ door_name = "" /\ block = <<>> /\ panel_name = <<>> /\ hardware_data = <<>>
    /\ subpanel_num = None /\ door_index = None /\ panels_structure = <<>>
    /\ drawn = 0 /\ files = <<>>
    /\ IdleExtract /\ IdleDraw

Init == InitTable(Tables, BOOLEAN)
InitBlock == InitTable(BlockTables, {FALSE})

InitExtract ==
    /\ pc = "extract"
    /\ raw_value \in ValueTexts
    /\ extracted = NoEntry
    /\ show_lines = FALSE
    /\ IdleParse /\ IdleDraw

InitDraw ==
    /\ pc = "draw"
    /\ subpanels \in DrawArguments
    /\ show_lines \in BOOLEAN
    /\ figure = EmptyFigure
    /\ IdleParse /\ IdleExtract

----------------------------------------------------------------------------
(* parse_door_config *)

\* lines 89-94: the sentinel rows are located, the structure starts empty
ReadSections ==
    /\ pc = "start"
    /\ cfg_indices' = LocateSentinels(df)
    /\ panels_structure' = <<>>
    /\ pc' = "loop"
    /\ UNCHANGED <<df, idx, step, door_name, block, panel_name, hardware_data,
                   subpanel_num, door_index, mainVars, extractVars, drawVars>>

InLoop == pc = "loop" /\ idx < Len(cfg_indices) - 1

\* lines 97-101: the sentinel is the first row, the section is skipped
SkipNoName ==
    /\ InLoop
    /\ Outcome(df, cfg_indices, idx) = "no_name"
    /\ idx' = idx + 1
    /\ step' = "no_name"
    /\ UNCHANGED <<pc, df, cfg_indices, door_name, block, panel_name, hardware_data,
                   subpanel_num, door_index, panels_structure, mainVars,
                   extractVars, drawVars>>

\* lines 97-108: the block holds no Panel row, the section is skipped
SkipNoPanel ==
    /\ InLoop
    /\ Outcome(df, cfg_indices, idx) = "no_panel"
    /\ LET header_index == cfg_indices[idx + 1] - 1
       IN  /\ door_name' = df[header_index + 1].Name
           /\ block' = BlockOf(df, header_index, cfg_indices[idx + 2])
    /\ idx' = idx + 1
    /\ step' = "no_panel"
    /\ UNCHANGED <<pc, df, cfg_indices, panel_name, hardware_data, subpanel_num,
                   door_index, panels_structure, mainVars, extractVars, drawVars>>

\* lines 97-159: the door of the section is put into the structure
ProcessDoor ==
    /\ InLoop
    /\ Outcome(df, cfg_indices, idx) \in {"inserted", "KeyError"}
    /\ IF Outcome(df, cfg_indices, idx) = "KeyError"
       THEN /\ pc' = "error"
            /\ step' = "KeyError"
            /\ UNCHANGED <<idx, door_name, block, panel_name, hardware_data,
                           subpanel_num, door_index, panels_structure>>
       ELSE LET header_index == cfg_indices[idx + 1] - 1
                name == df[header_index + 1].Name
                b == BlockOf(df, header_index, cfg_indices[idx + 2])
                pn == PanelNameOf(b)
                hd == ScanHardware(b)
                res == ResolveDoor(hd)
            IN  /\ door_name' = name
                /\ block' = b
                /\ panel_name' = pn
                /\ hardware_data' = hd
                /\ subpanel_num' = res[1]
                /\ door_index' = res[2]
                /\ panels_structure' =
                       InsertDoor(panels_structure, pn, res[1], name,
                                  [door_index |-> res[2], hardware |-> hd])
                /\ idx' = idx + 1
                /\ step' = "inserted"
                /\ pc' = pc
    /\ UNCHANGED <<df, cfg_indices, mainVars, extractVars, drawVars>>

\* line 161: return panels_structure
ParseReturn ==
    /\ pc = "loop"
    /\ idx = Len(cfg_indices) - 1
    /\ pc' = "main"
    /\ UNCHANGED <<parseVars, mainVars, extractVars, drawVars>>

----------------------------------------------------------------------------
(* main and launch_gui.run_generation *)

\* lines 374-376 / 433-439: nothing was parsed
MainNoPanels ==
    /\ pc = "main"
    /\ panels_structure = <<>>
    /\ pc' = "done"
    /\ UNCHANGED <<parseVars, mainVars, extractVars, drawVars>>

\* lines 379-384 / 441-444: the next panel is drawn and saved under its file name
MainDraw ==
    /\ pc = "main"
    /\ drawn < Len(panels_structure)
    /\ LET name == panels_structure[drawn + 1][1]
           fig == DrawPanelDiagram(name, panels_structure[drawn + 1][2], show_lines)
       IN  files' = IF fig.saved THEN (OutputFile(name) :> fig) @@ files ELSE files
    /\ drawn' = drawn + 1
    /\ UNCHANGED <<pc, parseVars, show_lines, extractVars, drawVars>>

\* the loop over panels.items() is over
MainEnd ==
    /\ pc = "main"
    /\ panels_structure # <<>>
    /\ drawn = Len(panels_structure)
    /\ pc' = "done"
    /\ UNCHANGED <<parseVars, mainVars, extractVars, drawVars>>

Next ==
    \/ ReadSections \/ SkipNoName \/ SkipNoPanel \/ ProcessDoor \/ ParseReturn
    \/ MainNoPanels \/ MainDraw \/ MainEnd

Spec == Init /\ [][Next]_vars
SpecBlock == InitBlock /\ [][Next]_vars

----------------------------------------------------------------------------
(* The extractor applied to one value text *)

Extract ==
    /\ pc = "extract"
    /\ extracted' = ExtractHardware(raw_value)
    /\ pc' = "extracted"
    /\ UNCHANGED <<raw_value, parseVars, mainVars, drawVars>>

NextExtract == Extract

SpecExtract == InitExtract /\ [][NextExtract]_vars

----------------------------------------------------------------------------
(* draw_panel_diagram called on a subpanel mapping *)

DrawCall ==
    /\ pc = "draw"
    /\ figure' = DrawPanelDiagram(<<"A", " ", "B">>, subpanels, show_lines)
    /\ pc' = "drawn"
    /\ UNCHANGED <<subpanels, parseVars, mainVars, extractVars>>

NextDraw == DrawCall

SpecDraw == InitDraw /\ [][NextDraw]_vars

----------------------------------------------------------------------------
(* Sections of the table, read off the table itself *)

\* 0-based indices of the sentinel rows
Sentinels(t) == {r \in 0..(Len(t) - 1) : t[r + 1].Name = CfgName}
\* the next sentinel row after r, or the length of the table
NextSentinel(t, r) ==
    LET later == {q \in Sentinels(t) : q > r} \cup {Len(t)}
    IN  CHOOSE q \in later : \A o \in later : q <= o
\* the sentinels of the sections the loop is through with
Handled == {r \in Sentinels(df) : Cardinality({q \in Sentinels(df) : q < r}) < idx}
\* the section of sentinel r >= 1: its name row up to the row before the next sentinel
SectionOf(t, r) == [q \in 1..(NextSentinel(t, r) - r + 1) |-> t[r - 1 + q]]
\* a name row precedes the sentinel and the section holds a Panel row
Parseable(t, r) ==
    r >= 1 /\ \E q \in 1..Len(SectionOf(t, r)) : SectionOf(t, r)[q].Name = "Panel"
Parsed == {r \in Handled : Parseable(df, r)}

DoorOf(t, r) ==
    LET hd == ScanHardware(SectionOf(t, r))
    IN  [door_index |-> ResolveDoor(hd)[2], hardware |-> hd]
\* <<panel, subpanel, door name>> of the section of sentinel r
KeyOf(t, r) ==
    <<PanelNameOf(SectionOf(t, r)), ResolveDoor(ScanHardware(SectionOf(t, r)))[1],
      t[r].Name>>

\* where the structure holds a door: panel a, its subpanel b, its door c
Positions(ps) ==
    UNION { UNION { { <<a, b, c>> : c \in 1..Len(ps[a][2][b][2]) } :
                    b \in 1..Len(ps[a][2]) } : a \in 1..Len(ps) }
KeyAt(ps, pos) ==
    <<ps[pos[1]][1], ps[pos[1]][2][pos[2]][1], ps[pos[1]][2][pos[2]][2][pos[3]][1]>>
DoorAt(ps, pos) == ps[pos[1]][2][pos[2]][2][pos[3]][2]

Largest(S) == CHOOSE r \in S : \A o \in S : o <= r

Parsing == pc \in {"loop", "main", "done"}

----------------------------------------------------------------------------
(* C1: every door in exactly one bucket *)

\* C1 as stated: the doors of the parsed sections and the entries of the
\* structure correspond one to one: each such door is in exactly one bucket,
\* none is lost, and a section without a Panel row adds nothing.
C1_AsStated ==
    Parsing =>
        /\ Cardinality(Positions(panels_structure)) = Cardinality(Parsed)
        /\ \A r \in Parsed :
              Cardinality({pos \in Positions(panels_structure) :
                              KeyAt(panels_structure, pos) = KeyOf(df, r)}) = 1

\* C1 amended: the structure holds exactly one entry for every distinct
\* (panel, subpanel, door name) of the parsed sections, in the bucket of that
\* panel and subpanel and nowhere else, and it is the door of the last section
\* with that triple: a door is lost exactly when a later section of the same
\* door name falls into the same bucket; sections without a Panel row add
\* nothing.
C1_Buckets ==
    Parsing =>
        LET parsed == Parsed
            key == [r \in parsed |-> KeyOf(df, r)]
            at == [pos \in Positions(panels_structure) |-> KeyAt(panels_structure, pos)]
        IN  /\ \A p1, p2 \in DOMAIN at : at[p1] = at[p2] => p1 = p2
            /\ {at[pos] : pos \in DOMAIN at} = {key[r] : r \in parsed}
            /\ \A pos \in DOMAIN at :
                  DoorAt(panels_structure, pos) =
                      DoorOf(df, Largest({r \in parsed : key[r] = at[pos]}))

\* two parsed sections of the same door name met in one bucket
C1_Witness ==
    /\ pc = "main"
    /\ \E r1, r2 \in Parsed : r1 < r2 /\ KeyOf(df, r1) = KeyOf(df, r2)
    /\ Cardinality(Positions(panels_structure)) < Cardinality(Parsed)

----------------------------------------------------------------------------
(* C5: one output file per panel *)

\* C5 as stated: when the pipeline is done, every panel's diagram is in the
\* file named after it and there are as many files as panels.
C5_AsStated ==
    pc = "done" =>
        /\ \A k \in 1..Len(panels_structure) :
              OutputFile(panels_structure[k][1]) \in DOMAIN files
        /\ Cardinality(DOMAIN files) = Len(panels_structure)

----------------------------------------------------------------------------
(* C6: an unparseable section is skipped and nothing else changes *)

RECURSIVE BuiltFrom(_, _)
\* the structure built from the sections of the sentinels S alone, in table order
BuiltFrom(t, S) ==
    IF S = {} THEN <<>>
    ELSE LET r == Largest(S)
             key == KeyOf(t, r)
         IN  InsertDoor(BuiltFrom(t, S \ {r}), key[1], key[2], key[3], DoorOf(t, r))

\* C6: no error is raised; at every point of the loop the structure is the one
\* built from the parseable sections handled so far alone (so a skipped section
\* changes nothing), and the loop ends only when every section was handled.
C6_SkipsHarmless ==
    /\ pc # "error"
    /\ Parsing => panels_structure = BuiltFrom(df, Parsed)
    /\ pc \in {"main", "done"} => Handled = Sentinels(df)

\* a skipped section was followed by a section that was parsed
C6_Witness ==
    /\ pc = "main"
    /\ \E r \in Handled \ Parsed : \E q \in Parsed : q > r
    /\ panels_structure # <<>>

----------------------------------------------------------------------------
(* C10: no empty panel, no empty subpanel *)

\* C10: every panel of the structure holds a subpanel and every subpanel a
\* door; every panel main has handled was saved (draw_panel_diagram did not
\* return early), and every subpanel box of a saved figure has a door box
\* under it (the zero-door branch was not taken).
C10_NeverEmpty ==
    /\ \A a \in 1..Len(panels_structure) :
          /\ Len(panels_structure[a][2]) >= 1
          /\ \A b \in 1..Len(panels_structure[a][2]) :
                Len(panels_structure[a][2][b][2]) >= 1
    /\ \A k \in 1..drawn : OutputFile(panels_structure[k][1]) \in DOMAIN files
    /\ \A f \in DOMAIN files :
          \A i \in 1..Len(files[f].patches) :
              files[f].patches[i].kind = "subpanel" =>
                  \E j \in 1..Len(files[f].patches) :
                      /\ files[f].patches[j].kind = "door"
                      /\ files[f].patches[j].col = files[f].patches[i].col

\* a panel with an unresolved door was drawn
C10_Witness ==
    /\ pc = "done"
    /\ drawn >= 1
    /\ \E a \in 1..Len(panels_structure) : Has(panels_structure[a][2], -1)

----------------------------------------------------------------------------
(* C2: subpanel and door index come from the first kind with a subpanel *)

\* the places, in the order Reader, Door Position, Strike, Rex #1, Rex #2, of
\* the kinds of hardware_data whose subpanel is present
WithSubpanel(hd) ==
    {k \in 1..5 :
        /\ Has(hd, <<"Reader", "Door Position", "Strike", "Rex #1", "Rex #2">>[k])
        /\ Get(hd, <<"Reader", "Door Position", "Strike", "Rex #1", "Rex #2">>[k]).subpanel
              # None}
Smallest(S) == CHOOSE k \in S : \A o \in S : k <= o
FirstWithSubpanel(hd) ==
    Get(hd, <<"Reader", "Door Position", "Strike", "Rex #1", "Rex #2">>[Smallest(WithSubpanel(hd))])

\* C2: once a door is inserted, (subpanel_num, door_index) are the subpanel and
\* the address (-1 if absent) of the first kind, in the order Reader, Door
\* Position, Strike, Rex #1, Rex #2, whose subpanel is present, and both are -1
\* when there is none; the door lies in that subpanel of its panel with that
\* door_index; 'Reader on subpanel 3 Address 7' gives subpanel 3, door_index 7.
C2_Resolution ==
    step = "inserted" =>
        /\ IF WithSubpanel(hardware_data) = {}
           THEN subpanel_num = -1 /\ door_index = -1
           ELSE /\ subpanel_num = FirstWithSubpanel(hardware_data).subpanel
                /\ door_index =
                      IF FirstWithSubpanel(hardware_data).address = None THEN -1
                      ELSE FirstWithSubpanel(hardware_data).address
        /\ Has(panels_structure, panel_name)
        /\ Has(Get(panels_structure, panel_name), subpanel_num)
        /\ Has(Get(Get(panels_structure, panel_name), subpanel_num), door_name)
        /\ Get(Get(Get(panels_structure, panel_name), subpanel_num), door_name).door_index
              = door_index
        /\ (Has(hardware_data, "Reader") /\ Get(hardware_data, "Reader").raw = ReaderText)
              => subpanel_num = 3 /\ door_index = 7

\* the Reader has no subpanel and the Door Position decides
C2_Witness ==
    /\ step = "inserted"
    /\ Has(hardware_data, "Reader") /\ Get(hardware_data, "Reader").subpanel = None
    /\ Has(hardware_data, "Alternate Reader")
    /\ Has(hardware_data, "Door Position")
    /\ subpanel_num = 0 /\ door_index = 5

----------------------------------------------------------------------------
(* C8: which rows make up a door's hardware mapping *)

\* the places in the block of the rows named name
RowsNamed(b, name) == {j \in 1..Len(b) : b[j].Name = name}
\* the places of the rows of kind behind the first Hardware row of the block
Candidates(b, kind) ==
    IF RowsNamed(b, "Hardware") = {} THEN {}
    ELSE {j \in RowsNamed(b, kind) : j > Smallest(RowsNamed(b, "Hardware"))}

\* C8: once a door is inserted, its block is its own section (name row up to
\* the row before the next sentinel); its hardware mapping has each kind at
\* most once and holds exactly the six recognised kinds that name a row of the
\* block behind the first Hardware row, each with what the extractor gives for
\* the last such row; it is the mapping stored with the door.
C8_HardwareRows ==
    step = "inserted" =>
        /\ block = SectionOf(df, Largest(Parsed))
        /\ Len(hardware_data) = Cardinality(Keys(hardware_data))
        /\ Keys(hardware_data)
              = {kind \in {"Reader", "Alternate Reader", "Door Position", "Strike",
                           "Rex #1", "Rex #2"} : Candidates(block, kind) # {}}
        /\ \A kind \in Keys(hardware_data) :
              Get(hardware_data, kind)
                 = ExtractHardware(RawValue(block[Largest(Candidates(block, kind))].Value))
        /\ Get(Get(Get(panels_structure, panel_name), subpanel_num), door_name).hardware
              = hardware_data

\* a recognised row before the Hardware row, a kind named twice behind it, a
\* row of another name, and a following section
C8_Witness ==
    /\ step = "inserted"
    /\ Candidates(block, "Strike") = {}
    /\ RowsNamed(block, "Strike") # {}
    /\ Cardinality(Candidates(block, "Reader")) >= 2
    /\ Get(hardware_data, "Reader").subpanel = None
    /\ Candidates(block, "Door Mode") # {}
    /\ Len(cfg_indices) = 3

----------------------------------------------------------------------------
(* What a direct call of draw_panel_diagram drew *)

Drawn == pc = "drawn"

\* the column of subpanel sp: subpanels are laid out in ascending order
ColumnOf(sp) == Cardinality({k \in Keys(subpanels) : k < sp})
DoorTexts(sp) ==
    {i \in 1..Len(figure.texts) :
        figure.texts[i].kind = "door" /\ figure.texts[i].col = ColumnOf(sp)}
\* the name on the door label in row r (from the top, 0-based) under sp
NameInRow(sp, r) ==
    figure.texts[CHOOSE i \in DoorTexts(sp) : figure.texts[i].row = r].s[1][1]
IndexInRow(sp, r) == Get(Get(subpanels, sp), NameInRow(sp, r)).door_index
\* the place of a door in the subpanel's mapping
PlaceOf(sp, name) ==
    CHOOSE k \in 1..Len(Get(subpanels, sp)) : Get(subpanels, sp)[k][1] = name
Rows(sp) == 0..(Len(Get(subpanels, sp)) - 1)

----------------------------------------------------------------------------
(* C3: the order of the doors of a subpanel *)

\* C3 as stated: every door of a subpanel is rendered once; resolved doors come
\* in ascending door_index, every unresolved door (-1) comes after every
\* resolved one, unresolved doors keep their insertion order; the indices
\* [5, -1, 2, -1, 1] are rendered as [1, 2, 5, -1, -1].
C3_AsStated ==
    Drawn =>
        \A sp \in Keys(subpanels) :
            /\ \A r \in Rows(sp) : Cardinality({i \in DoorTexts(sp) : figure.texts[i].row = r}) = 1
            /\ {NameInRow(sp, r) : r \in Rows(sp)} = Keys(Get(subpanels, sp))
            /\ \A r1, r2 \in Rows(sp) :
                  r1 < r2 =>
                      LET i1 == IndexInRow(sp, r1)
                          i2 == IndexInRow(sp, r2)
                      IN  /\ (i1 >= 0 /\ i2 >= 0) => i1 <= i2
                          /\ ~(i1 = -1 /\ i2 >= 0)
                          /\ (i1 = -1 /\ i2 = -1) =>
                                PlaceOf(sp, NameInRow(sp, r1)) < PlaceOf(sp, NameInRow(sp, r2))
            /\ [k \in 1..Len(Get(subpanels, sp)) |-> Get(subpanels, sp)[k][2].door_index]
                   = <<5, -1, 2, -1, 1>>
                 => [k \in 1..5 |-> IndexInRow(sp, k - 1)] = <<1, 2, 5, -1, -1>>

----------------------------------------------------------------------------
(* C4: the boxes lie in the unit square and do not overlap *)

\* the edges of the box drawn for a patch: its rectangle, pad further out
Left(p) == RSub(p.x, p.pad)
Right(p) == RAdd(RAdd(p.x, p.w), p.pad)
Bottom(p) == RSub(p.y, p.pad)
Top(p) == RAdd(RAdd(p.y, p.h), p.pad)

PatchesOf(kind) == {i \in 1..Len(figure.patches) : figure.patches[i].kind = kind}
InUnitSquare(p) ==
    /\ RLe(Whole(0), Left(p)) /\ RLe(Right(p), Whole(1))
    /\ RLe(Whole(0), Bottom(p)) /\ RLe(Top(p), Whole(1))
Overlap(p, q) ==
    /\ RLt(Left(p), Right(q)) /\ RLt(Left(q), Right(p))
    /\ RLt(Bottom(p), Top(q)) /\ RLt(Bottom(q), Top(p))
\* q lies below p with a gap between them
Apart(p, q) == RLt(Top(q), Bottom(p))

\* C4 as stated: every box has its four edges in [0,1] x [0,1], no two subpanel
\* boxes overlap, and of two door boxes of one subpanel the lower lies strictly
\* below the upper, their rectangles one fifth of the per-door share of the
\* band [0.1, 0.6] apart when they are consecutive.
C4_AsStated ==
    Drawn =>
        /\ \A i \in 1..Len(figure.patches) : InUnitSquare(figure.patches[i])
        /\ \A i, j \in PatchesOf("subpanel") :
              i # j => ~Overlap(figure.patches[i], figure.patches[j])
        /\ \A i, j \in PatchesOf("door") :
              LET p == figure.patches[i]
                  q == figure.patches[j]
                  m == Cardinality({k \in PatchesOf("door") : figure.patches[k].col = p.col})
              IN  (p.col = q.col /\ p.row < q.row) =>
                      /\ Apart(p, q)
                      /\ q.row = p.row + 1 =>
                            RSub(p.y, RAdd(q.y, q.h))
                               = RMul(Frac(2, 10), RDiv(Frac(5, 10), Whole(m)))

\* The rectangles handed to the patches, their pad left aside: each lies in the
\* unit square, subpanel rectangles do not overlap, door rectangles of one
\* subpanel lie one fifth of the per-door share apart.
RectanglesFit ==
    Drawn =>
        /\ \A i \in 1..Len(figure.patches) :
              LET p == figure.patches[i]
              IN  /\ RLe(Whole(0), p.x) /\ RLe(RAdd(p.x, p.w), Whole(1))
                  /\ RLe(Whole(0), p.y) /\ RLe(RAdd(p.y, p.h), Whole(1))
        /\ \A i, j \in PatchesOf("subpanel") :
              LET p == figure.patches[i]
                  q == figure.patches[j]
              IN  p.col < q.col => RLt(RAdd(p.x, p.w), q.x)
        /\ \A i, j \in PatchesOf("door") :
              LET p == figure.patches[i]
                  q == figure.patches[j]
              IN  (p.col = q.col /\ p.row < q.row) => RLt(RAdd(q.y, q.h), p.y)

----------------------------------------------------------------------------
(* C9: the label of a door box *)

LabelOrder == <<"Reader", "Door Position", "Strike", "Rex #1", "Rex #2">>
ShortOf(kind) ==
    CASE kind = "Reader" -> "RDR Output"
      [] kind = "Door Position" -> "DPOS"
      [] kind = "Strike" -> "LOCK Output"
      [] kind = "Rex #1" -> "REX1 Input"
      [] kind = "Rex #2" -> "REX2 Input"

\* the places in LabelOrder of the kinds that get a line
Shown(hw) ==
    {k \in 1..5 : /\ Has(hw, LabelOrder[k])
                  /\ Get(hw, LabelOrder[k]).address # None
                  /\ Get(hw, LabelOrder[k]).address > 0}
\* the j-th smallest member of S
Nth(S, j) == CHOOSE k \in S : Cardinality({o \in S : o <= k}) = j

IsLabelOf(label, name, data) ==
    LET head == IF data.door_index > 0
                THEN << <<name>>, <<"Addr: ", data.door_index>> >>
                ELSE << <<name>> >>
        shown == Shown(data.hardware)
    IN  /\ Len(label) = Len(head) + Cardinality(shown)
        /\ SubSeq(label, 1, Len(head)) = head
        /\ \A j \in 1..Cardinality(shown) :
              label[Len(head) + j]
                 = <<ShortOf(LabelOrder[Nth(shown, j)]), ":",
                     Get(data.hardware, LabelOrder[Nth(shown, j)]).address>>

\* C9: the label of every door box is the door name, then an address line iff
\* door_index > 0, then, in the order Reader, Door Position, Strike, Rex #1,
\* Rex #2, one line '<ShortLabel>:<address>' for exactly the kinds present with
\* an address that is present and > 0; nothing else, so no line for Alternate
\* Reader.
C9_Label ==
    Drawn =>
        \A sp \in Keys(subpanels) :
            /\ Cardinality(DoorTexts(sp)) = Len(Get(subpanels, sp))
            /\ \A i \in DoorTexts(sp) :
                  LET name == figure.texts[i].s[1][1]
                  IN  /\ Has(Get(subpanels, sp), name)
                      /\ IsLabelOf(figure.texts[i].s, name, Get(Get(subpanels, sp), name))

\* a door with door_index 2 whose Rex #1 has address 0 and which has an
\* Alternate Reader
C9_Witness ==
    /\ Drawn
    /\ \E i \in 1..Len(figure.texts) :
          /\ figure.texts[i].s = << <<"D1">>, <<"Addr: ", 2>>, <<"RDR Output", ":", 2>>,
                                    <<"REX2 Input", ":", 8>> >>
          /\ Has(Get(Get(subpanels, 3), "D1").hardware, "Alternate Reader")
          /\ Get(Get(Get(subpanels, 3), "D1").hardware, "Rex #1").address = 0

----------------------------------------------------------------------------
(* C7: what the extractor returns *)

\* the end of the longest run of atoms satisfying P that starts at i
RunEnd(t, i, P(_)) ==
    IF i > Len(t) THEN i
    ELSE CHOOSE j \in i..(Len(t) + 1) :
            /\ \A k \in i..(j - 1) : P(t[k])
            /\ j = Len(t) + 1 \/ ~P(t[j])

IsKw(t, i, kw) == i \in 1..Len(t) /\ Lower(t[i]) = kw
IsColon(t, i) == i \in 1..Len(t) /\ t[i] = ":"
DigitAt(t, i) == i \in 1..Len(t) /\ IsDigit(t[i])

\* 'subpanel <int> Address <int>' starting at i, in any casing
PrimaryAt(t, i) ==
    LET n1 == RunEnd(t, i + 1, IsSpace)
        d1 == RunEnd(t, n1, IsDigit)
        a1 == RunEnd(t, d1, IsSpace)
        n2 == RunEnd(t, a1 + 1, IsSpace)
        d2 == RunEnd(t, n2, IsDigit)
    IN  [ok |-> /\ IsKw(t, i, "subpanel") /\ n1 > i + 1 /\ d1 > n1 /\ a1 > d1
                /\ IsKw(t, a1, "address") /\ n2 > a1 + 1 /\ d2 > n2,
         g1 |-> SubSeq(t, n1, d1 - 1), g2 |-> SubSeq(t, n2, d2 - 1)]

\* 'Subpanel:<int>', blanks, a label token and ':<int>' starting at i
FallbackColonAt(t, i) ==
    LET d1 == RunEnd(t, i + 2, IsDigit)
        w1 == RunEnd(t, d1, IsSpace)
        c1 == RunEnd(t, w1, IsWord)
        d2 == RunEnd(t, c1 + 1, IsDigit)
    IN  [ok |-> /\ IsKw(t, i, "subpanel") /\ IsColon(t, i + 1) /\ d1 > i + 2
                /\ w1 > d1 /\ c1 > w1 /\ IsColon(t, c1) /\ d2 > c1 + 1,
         g1 |-> SubSeq(t, i + 2, d1 - 1), g2 |-> SubSeq(t, c1 + 1, d2 - 1)]

\* 'Subpanel:<int>', blanks and a label token not followed by ':<int>' whose
\* last digit, past its first character, is the address
FallbackBareAt(t, i) ==
    LET d1 == RunEnd(t, i + 2, IsDigit)
        w1 == RunEnd(t, d1, IsSpace)
        c1 == RunEnd(t, w1, IsWord)
        ds == {k \in (w1 + 1)..(c1 - 1) : IsDigit(t[k])}
        last == CHOOSE k \in ds : \A o \in ds : o <= k
    IN  [ok |-> /\ IsKw(t, i, "subpanel") /\ IsColon(t, i + 1) /\ d1 > i + 2
                /\ w1 > d1 /\ ds # {},
         g1 |-> SubSeq(t, i + 2, d1 - 1),
         g2 |-> IF ds # {} THEN <<t[last]>> ELSE <<>>]

\* the leftmost start at which At(t, i) matches, 0 when there is none
Leftmost(t, At(_, _)) ==
    LET S == {i \in 1..Len(t) : At(t, i).ok}
    IN  IF S = {} THEN 0 ELSE CHOOSE i \in S : \A o \in S : i <= o

Pair(m) == <<ToInt(m.g1), ToInt(m.g2)>>

FallbackAsCoded(t, i) ==
    IF FallbackColonAt(t, i).ok THEN FallbackColonAt(t, i) ELSE FallbackBareAt(t, i)

\* the pair of the first primary match, else of the first match of Fb, else None
Described(t, Fb(_, _)) ==
    LET p == Leftmost(t, PrimaryAt)
        f == Leftmost(t, Fb)
    IN  IF p # 0 THEN Pair(PrimaryAt(t, p))
        ELSE IF f # 0 THEN Pair(Fb(t, f))
        ELSE <<None, None>>

\* the text holds 'subpanel 3 Address 12' in some casing
PhraseAt(t, i) ==
    /\ i >= 1 /\ i + 7 <= Len(t)
    /\ Lower(t[i]) = "subpanel" /\ Lower(t[i + 4]) = "address"
    /\ <<t[i + 1], t[i + 2], t[i + 3], t[i + 5], t[i + 6], t[i + 7]>>
          = <<" ", "3", " ", " ", "1", "2">>

HoldsPhrase(t) == \E i \in 1..Len(t) : PhraseAt(t, i)

Got == <<extracted.subpanel, extracted.address>>

\* C7 as stated: the pair comes from the first primary match, else from the
\* first 'Subpanel:<int> <label>:<int>' match, else is (None, None); the raw
\* text is kept; any text holding 'subpanel 3 Address 12' yields (3, 12) and
\* 'Subpanel:2 Input:5' yields (2, 5).
C7_AsStated ==
    pc = "extracted" =>
        /\ Got = Described(raw_value, FallbackColonAt)
        /\ extracted.raw = raw_value
        /\ HoldsPhrase(raw_value) => Got = <<3, 12>>
        /\ raw_value = <<"Subpanel", ":", "2", " ", "Input", ":", "5">> => Got = <<2, 5>>

\* C7 amended: the pair comes from the first primary match (each number the
\* whole run of digits), else from the first match of 'Subpanel:<int>', blanks
\* and a label token followed by ':<int>' or, failing that, holding a digit
\* past its first character (the last such digit alone is the address), else
\* is (None, None); the raw text is kept; a text whose first primary match is
\* 'subpanel 3 Address 12' with no digit after it yields (3, 12), and
\* 'Subpanel:2 Input:5' yields (2, 5).
C7_Extractor ==
    pc = "extracted" =>
        /\ Got = Described(raw_value, FallbackAsCoded)
        /\ extracted.raw = raw_value
        /\ LET p == Leftmost(raw_value, PrimaryAt)
           IN  (/\ PhraseAt(raw_value, p)
                /\ ~DigitAt(raw_value, p + 8)) => Got = <<3, 12>>
        /\ raw_value = <<"Subpanel", ":", "2", " ", "Input", ":", "5">> => Got = <<2, 5>>

\* a fallback match without the colon: 'Subpanel:2 Input1' gives (2, 1)
C7_Witness ==
    /\ pc = "extracted"
    /\ raw_value = <<"Subpanel", ":", "2", " ", "Input", "1">>
    /\ Got = <<2, 1>>

====
